---- MODULE Spec2Model ----
(***************************************************************************)
(* The free-list allocator of the DDOS kernel (src/memory/heap.rs) and its *)
(* GlobalAlloc adapter, over a word-addressed model of the heap region.    *)
(*                                                                         *)
(* Memory is a function from the 8-byte-aligned byte addresses of the heap *)
(* region to machine words.  A FreeListNode header is three words: size at *)
(* +0, the discriminant of `next: Option<*mut FreeListNode>` at +8 and its *)
(* pointer payload at +16 (24 bytes, heap.rs:127); the footer is the last  *)
(* word of a block.  An Option value is the pair <<discriminant, pointer>>.*)
(***************************************************************************)
EXTENDS Integers, Sequences, FiniteSets, TLC

\* ------------------------------------------------------------------------
\* Program constants
\* ------------------------------------------------------------------------
ALIGN == 8

SIZE_OF_USIZE == 8

SIZE_OF_NODE == 24

HEAP_START == 2621440

\* ------------------------------------------------------------------------
\* Bounds of the model
\* ------------------------------------------------------------------------
\* The heap region is HeapWords machine words long (HEAP_SIZE scaled down).
HeapWords == 17

\* Requested payload sizes are 0 and 1 byte more than 0 .. MaxReqWords words.
MaxReqWords == 1

\* The callers make at most MaxCalls calls of alloc and dealloc.
MaxCalls == 6

\* Two callers that interleave make at most MaxRaceCalls calls of alloc.
MaxRaceCalls == 3

\* A caller that asks for the smallest block only makes at most
\* MaxSmallCalls calls of alloc and dealloc.
MaxSmallCalls == 7

\* A direct call of FreeList::allocate is one of the first MaxDirectCalls
\* calls made on the heap.
MaxDirectCalls == 2

\* Width in bits of a usize of the model: the 64 bits of the target scaled
\* down so that every sum stays inside the model checker's integers, and
\* wide enough for every address of the region.
UsizeBits == 24

\* ------------------------------------------------------------------------
\* Derived constants
\* ------------------------------------------------------------------------
HEAP_SIZE == HeapWords * SIZE_OF_USIZE

USIZE_MOD == 2 ^ UsizeBits

HeapType == {"BestFit", "WorstFit", "FirstFit", "NextFit"}

\* Word addresses of the heap region.
Words == {HEAP_START + SIZE_OF_USIZE * i : i \in 0 .. (HeapWords - 1)}

\* Contents the region may hold before anything was written to it.
Garbage == {0, 40}

\* Option<*mut FreeListNode>
None == <<0, 0>>

Some(p) == <<1, p>>

IsSome(o) == o[1] = 1

IsNone(o) == o[1] = 0

Unwrap(o) == o[2]

\* size_of::<FreeListNode>() + size_of::<usize>()
block_overhead == SIZE_OF_NODE + SIZE_OF_USIZE

\* align_up with a request of zero bytes served as one of one byte
align_up_min_one(size) ==
    LET s == ((IF size = 0 THEN 1 ELSE size) + ALIGN - 1) % USIZE_MOD
    IN  s - (s % ALIGN)

\* (size + ALIGN - 1) & !(ALIGN - 1), in wrapping usize arithmetic
align_up(size) ==
    LET s == (size + ALIGN - 1) % USIZE_MOD
    IN  s - (s % ALIGN)

\* ------------------------------------------------------------------------
\* Raw memory accesses
\* ------------------------------------------------------------------------
InHeap(a) == a \in Words

\* A whole header (three words) lies in the region.
NodeInHeap(a) ==
    /\ InHeap(a)
    /\ InHeap(a + SIZE_OF_USIZE)
    /\ InHeap(a + 2 * SIZE_OF_USIZE)

\* (*p).size
NodeSize(m, p) == m[p]

\* (*p).next
NodeNext(m, p) == <<m[p + SIZE_OF_USIZE], m[p + 2 * SIZE_OF_USIZE]>>

\* (*p).next = o
WriteNext(m, p, o) ==
    [m EXCEPT ![p + SIZE_OF_USIZE] = o[1], ![p + 2 * SIZE_OF_USIZE] = o[2]]

\* p.write(FreeListNode::new(size, next))
WriteNode(m, p, size, next) ==
    [m EXCEPT ![p] = size,
              ![p + SIZE_OF_USIZE] = next[1],
              ![p + 2 * SIZE_OF_USIZE] = next[2]]

\* address of the footer of a block of `size` bytes at p
FooterAddr(p, size) == p + size - SIZE_OF_USIZE

\* ------------------------------------------------------------------------
\* Searches.  Each returns [st, region, prev]: st is "ok" when the loop
\* exits, "hang" when it revisits nodes of a cyclic list for ever, and
\* "fault" when it dereferences something that is no node of the region.
\* A list of distinct nodes has at most HeapWords of them, so a walk of
\* more steps is inside a cycle.
\* ------------------------------------------------------------------------
Fuel == HeapWords + 1

Found(region, prev) == [st |-> "ok", region |-> region, prev |-> prev]

Hang == [st |-> "hang", region |-> None, prev |-> None]

Fault == [st |-> "fault", region |-> None, prev |-> None]

\* `while let Some(node_ptr) = current` can read the node
Deref(o) == IsSome(o) /\ NodeInHeap(Unwrap(o))

ValidOption(o) == IsNone(o) \/ IsSome(o)

RECURSIVE first_fit_loop(_, _, _, _, _)
first_fit_loop(m, current, prev, requested_size, fuel) ==
    IF IsNone(current) THEN Found(None, None)
    ELSE IF ~Deref(current) THEN Fault
    ELSE IF fuel = 0 THEN Hang
    ELSE IF NodeSize(m, Unwrap(current)) >= requested_size
         THEN Found(current, prev)
         ELSE first_fit_loop(m, NodeNext(m, Unwrap(current)), current,
                             requested_size, fuel - 1)

find_region_first_fit(self, m, requested_size) ==
    IF requested_size >= self.capacity THEN Found(None, None)
    ELSE first_fit_loop(m, self.head, None, requested_size, Fuel)

\* A search that starts behind the first node of the list when the list has
\* a second node: what lines 290-315 do not do.
find_region_after_head(self, m, requested_size) ==
    IF requested_size >= self.capacity THEN Found(None, None)
    ELSE IF Deref(self.head) /\ Deref(NodeNext(m, Unwrap(self.head)))
         THEN first_fit_loop(m, NodeNext(m, Unwrap(self.head)), self.head,
                             requested_size, Fuel)
         ELSE first_fit_loop(m, self.head, None, requested_size, Fuel)

find_region_next_fit(self, m, requested_size) ==
    IF requested_size >= self.capacity THEN Found(None, None)
    ELSE first_fit_loop(m, self.head, None, requested_size, Fuel)

\* the Best-Fit loop with <= for <: of equal candidates it keeps the last
RECURSIVE best_fit_loop_keeps_last(_, _, _, _, _, _, _)
best_fit_loop_keeps_last(m, current, prev, best, best_prev, requested_size, fuel) ==
    IF IsNone(current) THEN Found(best, best_prev)
    ELSE IF ~Deref(current) THEN Fault
    ELSE IF fuel = 0 THEN Hang
    ELSE LET node_ptr == Unwrap(current)
             take == /\ NodeSize(m, node_ptr) >= requested_size
                     /\ \/ IsNone(best)
                        \/ NodeSize(m, node_ptr) <= NodeSize(m, Unwrap(best))
         IN  best_fit_loop_keeps_last(m, NodeNext(m, node_ptr), current,
                                      IF take THEN current ELSE best,
                                      IF take THEN prev ELSE best_prev,
                                      requested_size, fuel - 1)

\* lines 216-230
RECURSIVE best_fit_loop(_, _, _, _, _, _, _)
best_fit_loop(m, current, prev, best, best_prev, requested_size, fuel) ==
    IF IsNone(current) THEN Found(best, best_prev)
    ELSE IF ~Deref(current) THEN Fault
    ELSE IF fuel = 0 THEN Hang
    ELSE LET node_ptr == Unwrap(current)
             take == /\ NodeSize(m, node_ptr) >= requested_size
                     /\ \/ IsNone(best)
                        \/ NodeSize(m, node_ptr) < NodeSize(m, Unwrap(best))
         IN  best_fit_loop(m, NodeNext(m, node_ptr), current,
                           IF take THEN current ELSE best,
                           IF take THEN prev ELSE best_prev,
                           requested_size, fuel - 1)

find_region_best_fit(self, m, requested_size) ==
    IF requested_size >= self.capacity THEN Found(None, None)
    ELSE best_fit_loop(m, self.head, None, None, None, requested_size, Fuel)

\* the Worst-Fit loop with >= for >: of equal candidates it keeps the last
RECURSIVE worst_fit_loop_keeps_last(_, _, _, _, _, _, _)
worst_fit_loop_keeps_last(m, current, prev, worst, worst_prev, requested_size, fuel) ==
    IF IsNone(current) THEN Found(worst, worst_prev)
    ELSE IF ~Deref(current) THEN Fault
    ELSE IF fuel = 0 THEN Hang
    ELSE LET node_ptr == Unwrap(current)
             take == /\ NodeSize(m, node_ptr) >= requested_size
                     /\ \/ IsNone(worst)
                        \/ NodeSize(m, node_ptr) >= NodeSize(m, Unwrap(worst))
         IN  worst_fit_loop_keeps_last(m, NodeNext(m, node_ptr), current,
                                       IF take THEN current ELSE worst,
                                       IF take THEN prev ELSE worst_prev,
                                       requested_size, fuel - 1)

\* lines 259-273
RECURSIVE worst_fit_loop(_, _, _, _, _, _, _)
worst_fit_loop(m, current, prev, worst, worst_prev, requested_size, fuel) ==
    IF IsNone(current) THEN Found(worst, worst_prev)
    ELSE IF ~Deref(current) THEN Fault
    ELSE IF fuel = 0 THEN Hang
    ELSE LET node_ptr == Unwrap(current)
             take == /\ NodeSize(m, node_ptr) >= requested_size
                     /\ \/ IsNone(worst)
                        \/ NodeSize(m, node_ptr) > NodeSize(m, Unwrap(worst))
         IN  worst_fit_loop(m, NodeNext(m, node_ptr), current,
                            IF take THEN current ELSE worst,
                            IF take THEN prev ELSE worst_prev,
                            requested_size, fuel - 1)

find_region_worst_fit(self, m, requested_size) ==
    IF requested_size >= self.capacity THEN Found(None, None)
    ELSE worst_fit_loop(m, self.head, None, None, None, requested_size, Fuel)

\* match self.heap_type { ... }
find_region(self, m, total_size) ==
    CASE self.heap_type = "FirstFit" -> find_region_first_fit(self, m, total_size)
      [] self.heap_type = "BestFit" -> find_region_best_fit(self, m, total_size)
      [] self.heap_type = "WorstFit" -> find_region_worst_fit(self, m, total_size)
      [] self.heap_type = "NextFit" -> find_region_next_fit(self, m, total_size)

\* ------------------------------------------------------------------------
\* FreeList::init, FreeList::allocate, FreeList::deallocate.
\* `self` is [head, start_address, capacity, heap_type]; `m` is the memory.
\* The statements are applied to memory one after the other, in the order
\* of the source, each reading what the previous ones wrote.
\* ------------------------------------------------------------------------
FreeListOf(head, start, capacity, heap_type) ==
    [head |-> head, start_address |-> start, capacity |-> capacity,
     heap_type |-> heap_type]

\* init that writes the size of the first node and leaves its next field
\* as the memory held it
init_size_only(m, start, capacity, heap_type) ==
    [self |-> FreeListOf(Some(start), start, capacity, heap_type),
     m |-> [m EXCEPT ![start] = capacity]]

\* FreeList::init: one node at start, size = capacity, next = None; no footer
init(m, start, capacity, heap_type) ==
    [self |-> FreeListOf(Some(start), start, capacity, heap_type),
     m |-> WriteNode(m, start, capacity, None)]

AllocResult(st, ret, self, m) == [st |-> st, ret |-> ret, self |-> self, m |-> m]

\* lines 471-476: footer of the allocated block, pointer after its header
alloc_finish(self, m, node_ptr) ==
    LET size == NodeSize(m, node_ptr)
        footer_ptr == FooterAddr(node_ptr, size)
    IN  IF ~InHeap(footer_ptr) THEN AllocResult("fault", None, self, m)
        ELSE AllocResult("ok", Some(node_ptr + SIZE_OF_NODE), self,
                         [m EXCEPT ![footer_ptr] = size])

\* A split that hands out the high end of the region and leaves the node
\* where it is, shortened: what lines 439-461 do not do.
alloc_split_high(self, m, node_ptr, prev, total_size) ==
    LET remaining_size == NodeSize(m, node_ptr) - total_size
        new_node_ptr == node_ptr + remaining_size
        footer == FooterAddr(node_ptr, remaining_size)
    IN  IF ~(NodeInHeap(new_node_ptr) /\ InHeap(footer))
        THEN AllocResult("fault", None, self, m)
        ELSE alloc_finish(self,
                 WriteNode([m EXCEPT ![node_ptr] = remaining_size,
                                     ![footer] = remaining_size],
                           new_node_ptr, total_size, None),
                 new_node_ptr)

\* lines 439-461: split the region, the remainder takes its place in the list
alloc_split(self, m, node_ptr, prev, total_size) ==
    LET remaining_size == NodeSize(m, node_ptr) - total_size
        new_node_ptr == node_ptr + total_size
        new_footer == FooterAddr(new_node_ptr, remaining_size)
        m1 == WriteNode(m, new_node_ptr, remaining_size, NodeNext(m, node_ptr))
        m2 == [m1 EXCEPT ![new_footer] = remaining_size]
        m3 == IF IsSome(prev)
              THEN WriteNext(m2, Unwrap(prev), Some(new_node_ptr))
              ELSE m2
        head3 == IF IsSome(prev) THEN self.head ELSE Some(new_node_ptr)
        m4 == [m3 EXCEPT ![node_ptr] = total_size]
    IN  IF ~(NodeInHeap(new_node_ptr) /\ InHeap(new_footer))
        THEN AllocResult("fault", None, self, m)
        ELSE alloc_finish([self EXCEPT !.head = head3], m4, node_ptr)

\* lines 462-469: unlink the whole region
alloc_whole(self, m, node_ptr, prev) ==
    LET next == NodeNext(m, node_ptr)
        m1 == IF IsSome(prev) THEN WriteNext(m, Unwrap(prev), next) ELSE m
        head1 == IF IsSome(prev) THEN self.head ELSE next
    IN  alloc_finish([self EXCEPT !.head = head1], m1, node_ptr)

\* A split test that needs room to spare beyond a block's overhead: what
\* line 439 does not ask.
ShouldSplitStrict(node_size, total_size) ==
    node_size > (total_size + block_overhead) % USIZE_MOD

\* the split test of line 439
ShouldSplit(node_size, total_size) ==
    node_size >= (total_size + block_overhead) % USIZE_MOD

\* lines 420-423
TotalSize(requested_size) ==
    (align_up(requested_size) + block_overhead) % USIZE_MOD

\* lines 433-477: what allocate does with the (region, prev) of the search
allocate_from(self, m, region, prev, total_size) ==
    IF IsNone(region) THEN AllocResult("ok", None, self, m)
    ELSE LET node_ptr == Unwrap(region)
         IN  IF ShouldSplit(NodeSize(m, node_ptr), total_size)
             THEN alloc_split(self, m, node_ptr, prev, total_size)
             ELSE alloc_whole(self, m, node_ptr, prev)

allocate(self, m, requested_size) ==
    LET total_size == TotalSize(requested_size)
        f == find_region(self, m, total_size)
    IN  IF f.st # "ok" THEN AllocResult(f.st, None, self, m)
        ELSE allocate_from(self, m, f.region, f.prev, total_size)

DeallocResult(st, self, m) == [st |-> st, self |-> self, m |-> m]

\* lines 506-516: first node whose address is greater than node_ptr
RECURSIVE insert_loop(_, _, _, _, _)
insert_loop(m, current, prev, node_ptr, fuel) ==
    IF IsNone(current) THEN Found(current, prev)
    ELSE IF ~Deref(current) THEN Fault
    ELSE IF fuel = 0 THEN Hang
    ELSE IF Unwrap(current) > node_ptr THEN Found(current, prev)
    ELSE insert_loop(m, NodeNext(m, Unwrap(current)), current, node_ptr,
                     fuel - 1)

\* lines 518-525: link node_ptr between prev and current
dealloc_insert(self, m, node_ptr, current, prev) ==
    LET m1 == WriteNext(m, node_ptr, current)
    IN  IF IsSome(prev)
        THEN DeallocResult("ok", self, WriteNext(m1, Unwrap(prev), Some(node_ptr)))
        ELSE DeallocResult("ok", [self EXCEPT !.head = Some(node_ptr)], m1)

\* lines 527-540: forward coalescing
coalesce_forward(self, m, node_ptr) ==
    LET next == NodeNext(m, node_ptr)
        next_ptr == Unwrap(next)
        node_end == node_ptr + NodeSize(m, node_ptr)
        m1 == [m EXCEPT ![node_ptr] = (@ + NodeSize(m, next_ptr)) % USIZE_MOD]
        m2 == WriteNext(m1, node_ptr, NodeNext(m1, next_ptr))
        footer == FooterAddr(node_ptr, NodeSize(m2, node_ptr))
    IN  IF ~ValidOption(next) THEN DeallocResult("fault", self, m)
        ELSE IF IsNone(next) \/ node_end # next_ptr THEN DeallocResult("ok", self, m)
        ELSE IF ~(NodeInHeap(next_ptr) /\ InHeap(footer))
             THEN DeallocResult("fault", self, m)
        ELSE DeallocResult("ok", self, [m2 EXCEPT ![footer] = NodeSize(m2, node_ptr)])

\* lines 542-566: backward coalescing through the footer below node_ptr
coalesce_backward(self, m, node_ptr) ==
    LET prev_footer_ptr == node_ptr - SIZE_OF_USIZE
        prev_size == m[prev_footer_ptr]
        prev_start == (node_ptr - prev_size) % USIZE_MOD
        m1 == [m EXCEPT ![prev_start] = (@ + NodeSize(m, node_ptr)) % USIZE_MOD]
        m2 == WriteNext(m1, prev_start, NodeNext(m1, node_ptr))
        footer == FooterAddr(prev_start, NodeSize(m2, prev_start))
    IN  IF ~(node_ptr > self.start_address) THEN DeallocResult("ok", self, m)
        ELSE IF ~InHeap(prev_footer_ptr) THEN DeallocResult("fault", self, m)
        ELSE IF ~(prev_start >= self.start_address) THEN DeallocResult("ok", self, m)
        ELSE IF ~InHeap(prev_start) THEN DeallocResult("fault", self, m)
        ELSE IF (prev_start + NodeSize(m, prev_start)) % USIZE_MOD # node_ptr
             THEN DeallocResult("ok", self, m)
        ELSE IF ~(NodeInHeap(prev_start) /\ InHeap(footer))
             THEN DeallocResult("fault", self, m)
        ELSE DeallocResult("ok", self, [m2 EXCEPT ![footer] = NodeSize(m2, prev_start)])

deallocate(self, m, address) ==
    LET node_ptr == address - SIZE_OF_NODE
        w == insert_loop(m, self.head, None, node_ptr, Fuel)
    IN  IF ~NodeInHeap(node_ptr) THEN DeallocResult("fault", self, m)
        ELSE IF w.st # "ok" THEN DeallocResult(w.st, self, m)
        ELSE LET i == dealloc_insert(self, m, node_ptr, w.region, w.prev)
                 f == coalesce_forward(i.self, i.m, node_ptr)
             IN  IF f.st # "ok" THEN f
                 ELSE coalesce_backward(f.self, f.m, node_ptr)

\* ------------------------------------------------------------------------
\* The footer writes of a call
\* ------------------------------------------------------------------------
\* The footer writes of an allocate that gives the block it hands out no
\* footer (lines 448-451 without lines 471-473).
remainder_footer_only(m, region, prev, total_size) ==
    IF ~Deref(region) THEN {}
    ELSE LET node_ptr == Unwrap(region)
             size == NodeSize(m, node_ptr)
         IN  IF ShouldSplit(size, total_size)
             THEN {FooterAddr(node_ptr + total_size, size - total_size)} \cap Words
             ELSE {}

\* lines 448-451, 471-473: the addresses allocate writes a footer to when it
\* goes on with (region, prev)
allocate_from_footers(m, region, prev, total_size) ==
    IF ~Deref(region) THEN {}
    ELSE LET node_ptr == Unwrap(region)
             size == NodeSize(m, node_ptr)
             unlinked == IF IsSome(prev)
                         THEN WriteNext(m, Unwrap(prev), NodeNext(m, node_ptr))
                         ELSE m
         IN  IF ShouldSplit(size, total_size)
             THEN {FooterAddr(node_ptr + total_size, size - total_size),
                   FooterAddr(node_ptr, total_size)} \cap Words
             ELSE {FooterAddr(node_ptr, NodeSize(unlinked, node_ptr))} \cap Words

allocate_footers(self, m, requested_size) ==
    LET total_size == TotalSize(requested_size)
        f == find_region(self, m, total_size)
    IN  IF f.st # "ok" THEN {}
        ELSE allocate_from_footers(m, f.region, f.prev, total_size)

\* lines 536-538: the footer of the block merged forward
forward_footer(m, node_ptr) ==
    LET next == NodeNext(m, node_ptr)
        next_ptr == Unwrap(next)
        merged == (NodeSize(m, node_ptr) + NodeSize(m, next_ptr)) % USIZE_MOD
    IN  IF /\ IsSome(next)
           /\ node_ptr + NodeSize(m, node_ptr) = next_ptr
           /\ NodeInHeap(next_ptr)
        THEN {FooterAddr(node_ptr, merged)} \cap Words
        ELSE {}

\* lines 560-563: the footer of the block merged backward
backward_footer(self, m, node_ptr) ==
    LET prev_footer_ptr == node_ptr - SIZE_OF_USIZE
        prev_size == m[prev_footer_ptr]
        prev_start == (node_ptr - prev_size) % USIZE_MOD
        merged == (NodeSize(m, prev_start) + NodeSize(m, node_ptr)) % USIZE_MOD
    IN  IF /\ node_ptr > self.start_address
           /\ InHeap(prev_footer_ptr)
           /\ prev_start >= self.start_address
           /\ NodeInHeap(prev_start)
           /\ (prev_start + NodeSize(m, prev_start)) % USIZE_MOD = node_ptr
        THEN {FooterAddr(prev_start, merged)} \cap Words
        ELSE {}

\* the addresses deallocate writes a footer to
deallocate_footers(self, m, address) ==
    LET node_ptr == address - SIZE_OF_NODE
        w == insert_loop(m, self.head, None, node_ptr, Fuel)
        i == dealloc_insert(self, m, node_ptr, w.region, w.prev)
        f == coalesce_forward(i.self, i.m, node_ptr)
    IN  IF ~NodeInHeap(node_ptr) \/ w.st # "ok" THEN {}
        ELSE forward_footer(i.m, node_ptr)
                \cup (IF f.st = "ok" THEN backward_footer(f.self, f.m, node_ptr)
                      ELSE {})

\* ------------------------------------------------------------------------
\* GlobalAlloc for Locked<FreeList>
\* ------------------------------------------------------------------------
null_mut == 0

\* alloc that rejects an unsupported alignment only after allocate has run
alloc_align_checked_late(self, m, layout) ==
    LET r == allocate(self, m, layout.size)
    IN  [st |-> r.st,
         ptr |-> IF IsSome(r.ret) /\ layout.align <= ALIGN
                 THEN Unwrap(r.ret) ELSE null_mut,
         self |-> r.self, m |-> r.m]

\* alloc that hands out the first block of the heap when allocate found
\* nothing
alloc_never_null(self, m, layout) ==
    LET r == allocate(self, m, layout.size)
    IN  [st |-> r.st,
         ptr |-> IF IsSome(r.ret) THEN Unwrap(r.ret)
                 ELSE HEAP_START + SIZE_OF_NODE,
         self |-> r.self, m |-> r.m]

\* GlobalAlloc::alloc: layout.align() is not looked at
alloc(self, m, layout) ==
    LET r == allocate(self, m, layout.size)
    IN  [st |-> r.st,
         ptr |-> IF IsSome(r.ret) THEN Unwrap(r.ret) ELSE null_mut,
         self |-> r.self, m |-> r.m]

\* GlobalAlloc::dealloc
dealloc(self, m, ptr) == deallocate(self, m, ptr)

\* ------------------------------------------------------------------------
\* The state machine
\* ------------------------------------------------------------------------
VARIABLES
    head,           \* FreeList.head
    start_address,  \* FreeList.start_address
    capacity,       \* FreeList.capacity
    heap_type,      \* FreeList.heap_type
    mem,            \* the words of the heap region
    live,           \* pointers handed out by alloc and not yet given back
    granted,        \* for each live pointer, the size its block had when handed out
    inflight,       \* for each caller, the allocate call it is in the middle of
    footers,        \* addresses written as a footer since init
    last,           \* the call made last and what it returned
    calls,          \* number of alloc and dealloc calls made so far
    phase,          \* shape of the call sequence: "allocs", then "frees", else "mixed"
    pc              \* "static", "ready", or "hung" / "fault" (a call that never
                    \* returns) / "panic" (the kernel has panicked)

vars == <<head, start_address, capacity, heap_type, mem, live, granted, inflight,
          footers,
          last, calls, phase, pc>>

Self == FreeListOf(head, start_address, capacity, heap_type)

\* Layouts the callers ask for: 0, 1, 9, ... bytes and one request larger
\* than the heap, each with an alignment of ALIGN and one of 2 * ALIGN.
ReqSizes ==
    {0} \cup {ALIGN * k + 1 : k \in 0 .. MaxReqWords} \cup {HEAP_SIZE}

ReqAligns == {ALIGN, 2 * ALIGN}

Layouts == [size : ReqSizes, align : ReqAligns]

NoCall == [op |-> "none", size |-> 0, align |-> 0, ptr |-> null_mut, ret |-> null_mut]

\* The callers of the allocator: the kernel runs one; a second is what an
\* interrupt handler or another core would be.
Callers == {1, 2}

\* A caller that is not inside an allocate call.
Idle == [at |-> "idle", size |-> 0, total |-> 0, region |-> None, prev |-> None,
         ret |-> null_mut]

\* The record of blocks handed out, after ptr was returned over memory m.
Grant(g, ptr, m) ==
    [p \in DOMAIN g \cup {ptr} |->
        IF p = ptr THEN NodeSize(m, ptr - SIZE_OF_NODE) ELSE g[p]]

\* static ALLOCATOR = Locked::new(FreeList { head: None, 0, 0, BestFit })
Init ==
    /\ head = None
    /\ start_address = 0
    /\ capacity = 0
    /\ heap_type = "BestFit"
    /\ \E g \in Garbage : mem = [a \in Words |-> g]
    /\ live = {}
    /\ granted = <<>>
    /\ inflight = [c \in Callers |-> Idle]
    /\ footers = {}
    /\ last = NoCall
    /\ calls = 0
    /\ phase = "allocs"
    /\ pc = "static"

\* memory::init, called once; the strategy is the one compiled in
MemoryInit ==
    /\ pc = "static"
    /\ \E ht \in HeapType :
         LET r == init(mem, HEAP_START, HEAP_SIZE, ht)
         IN  /\ head' = r.self.head
             /\ start_address' = r.self.start_address
             /\ capacity' = r.self.capacity
             /\ heap_type' = r.self.heap_type
             /\ mem' = r.m
    /\ live' = {}
    /\ granted' = <<>>
    /\ last' = [NoCall EXCEPT !.op = "init"]
    /\ pc' = "ready"
    /\ footers' = {}
    /\ UNCHANGED <<calls, phase, inflight>>

Alloc ==
    /\ pc \in {"static", "ready"}
    /\ calls < MaxCalls
    /\ calls' = calls + 1
    /\ \E layout \in Layouts :
         LET r == alloc(Self, mem, layout)
         IN  /\ head' = r.self.head
             /\ mem' = r.m
             /\ live' = IF r.st = "ok" /\ r.ptr # null_mut
                        THEN live \cup {r.ptr} ELSE live
             /\ granted' = IF r.st = "ok" /\ r.ptr # null_mut
                           THEN Grant(granted, r.ptr, r.m) ELSE granted
             /\ footers' = footers \cup allocate_footers(Self, mem, layout.size)
             /\ last' = [op |-> "alloc", size |-> layout.size,
                         align |-> layout.align, ptr |-> null_mut,
                         ret |-> r.ptr]
             /\ phase' = IF phase = "allocs" /\ (r.ptr # null_mut \/ pc = "static")
                         THEN "allocs" ELSE "mixed"
             /\ pc' = CASE r.st = "ok" -> pc
                        [] r.st = "hang" -> "hung"
                        [] r.st = "fault" -> "fault"
    /\ UNCHANGED <<start_address, capacity, heap_type, inflight>>

Dealloc ==
    /\ pc = "ready"
    /\ calls < MaxCalls
    /\ calls' = calls + 1
    /\ \E ptr \in live :
         LET r == dealloc(Self, mem, ptr)
         IN  /\ head' = r.self.head
             /\ mem' = r.m
             /\ live' = live \ {ptr}
             /\ granted' = [p \in live \ {ptr} |-> granted[p]]
             /\ footers' = footers \cup deallocate_footers(Self, mem, ptr)
             /\ last' = [op |-> "dealloc", size |-> 0, align |-> 0,
                         ptr |-> ptr, ret |-> null_mut]
             /\ phase' = IF phase = "mixed" THEN "mixed" ELSE "frees"
             /\ pc' = CASE r.st = "ok" -> pc
                        [] r.st = "hang" -> "hung"
                        [] r.st = "fault" -> "fault"
    /\ UNCHANGED <<start_address, capacity, heap_type, inflight>>

\* #[alloc_error_handler]: what liballoc calls when alloc gave it a null
\* pointer; it panics with the layout and never returns
AllocError ==
    /\ pc \in {"static", "ready"}
    /\ last.op = "alloc"
    /\ last.ret = null_mut
    /\ last' = [last EXCEPT !.op = "alloc_error"]
    /\ pc' = "panic"
    /\ UNCHANGED <<head, start_address, capacity, heap_type, mem, live, granted,
                   inflight, footers, calls, phase>>

Next == MemoryInit \/ Alloc \/ Dealloc \/ AllocError

Spec == Init /\ [][Next]_vars

\* ------------------------------------------------------------------------
\* FreeList::allocate called with sizes that no caller of Spec asks for
\* ------------------------------------------------------------------------
\* The request whose block is exactly the heap, and the two largest
\* multiples of a byte and of ALIGN a usize holds: the first wraps inside
\* align_up, the second in the sum with the overhead.
DirectSizes == {HEAP_SIZE - block_overhead, USIZE_MOD - ALIGN, USIZE_MOD - 1}

\* A sum of lines 374 and 423 does not fit a usize.
Overflows(requested_size) ==
    \/ requested_size + ALIGN - 1 >= USIZE_MOD
    \/ align_up(requested_size) + block_overhead >= USIZE_MOD

\* ALLOCATOR.lock().allocate(size).  An overflowing `+` panics when the
\* kernel is built with overflow checks (the dev profile) and wraps when it
\* is built without them (the release profile).
Allocate ==
    /\ pc \in {"static", "ready"}
    /\ calls < MaxDirectCalls
    /\ calls' = calls + 1
    /\ \E size \in DirectSizes, overflow_checks \in BOOLEAN :
         LET r == allocate(Self, mem, size)
             ret == IF IsSome(r.ret) THEN Unwrap(r.ret) ELSE null_mut
         IN  IF Overflows(size) /\ overflow_checks
             THEN /\ pc' = "panic"
                  /\ last' = [op |-> "allocate", size |-> size, align |-> 0,
                              ptr |-> null_mut, ret |-> null_mut]
                  /\ UNCHANGED <<head, mem, live, granted, footers, phase>>
             ELSE /\ head' = r.self.head
                  /\ mem' = r.m
                  /\ live' = IF r.st = "ok" /\ ret # null_mut
                             THEN live \cup {ret} ELSE live
                  /\ granted' = IF r.st = "ok" /\ ret # null_mut
                                THEN Grant(granted, ret, r.m) ELSE granted
                  /\ footers' = footers \cup allocate_footers(Self, mem, size)
                  /\ last' = [op |-> "allocate", size |-> size, align |-> 0,
                              ptr |-> null_mut, ret |-> ret]
                  /\ phase' = IF phase = "allocs" /\ (ret # null_mut \/ pc = "static")
                              THEN "allocs" ELSE "mixed"
                  /\ pc' = CASE r.st = "ok" -> pc
                             [] r.st = "hang" -> "hung"
                             [] r.st = "fault" -> "fault"
    /\ UNCHANGED <<start_address, capacity, heap_type, inflight>>

NextDirect == Next \/ Allocate

SpecDirect == Init /\ [][NextDirect]_vars

\* ------------------------------------------------------------------------
\* Views of the state used by the properties
\* ------------------------------------------------------------------------
\* The addresses met by following next from `current`, up to `fuel` of them.
RECURSIVE Walk(_, _, _)
Walk(m, current, fuel) ==
    IF fuel = 0 \/ ~Deref(current) THEN <<>>
    ELSE <<Unwrap(current)>> \o Walk(m, NodeNext(m, Unwrap(current)), fuel - 1)

\* The free list, from head.
FreeNodes == Walk(mem, head, Fuel)

\* Some node is met twice: the list runs into a cycle.
Cyclic == Len(FreeNodes) = Fuel

FreeSet == {FreeNodes[i] : i \in 1 .. Len(FreeNodes)}

\* Headers of the blocks handed out and not yet given back.
LiveHeaders == {p - SIZE_OF_NODE : p \in live}

\* [a, a + size) and [b, b + size) share a byte.
Overlap(a, b) ==
    /\ a < b + NodeSize(mem, b)
    /\ b < a + NodeSize(mem, a)

RECURSIVE SumSizes(_)
SumSizes(S) ==
    IF S = {} THEN 0
    ELSE LET a == CHOOSE x \in S : TRUE
         IN  NodeSize(mem, a) + SumSizes(S \ {a})

\* The call made last returned to its caller.
Returned == pc \in {"static", "ready"}

\* ------------------------------------------------------------------------
\* Properties
\* ------------------------------------------------------------------------

\* C1: allocate never returns a pointer that is still live, and the byte
\* ranges [header, header + size) of any two live allocated blocks are
\* disjoint.
C1_LiveBlocksDisjoint ==
    /\ [][(last'.op = "alloc" /\ calls' # calls /\ last'.ret # null_mut)
            => last'.ret \notin live]_vars
    /\ [](\A a, b \in LiveHeaders : a # b => ~Overlap(a, b))

\* C2: after a sequence of successful allocations on a fresh heap,
\* deallocating every returned pointer, in any order, leaves the free list
\* as exactly one node at the heap start whose size is the capacity.
C2_RoundTripRestoresHeap ==
    (pc = "ready" /\ phase = "frees" /\ live = {})
        => /\ FreeNodes = <<start_address>>
           /\ NodeSize(mem, start_address) = capacity
           /\ IsNone(NodeNext(mem, start_address))

\* C3: the sizes in the headers of all blocks, free-list nodes and live
\* allocated blocks together, sum to the capacity established at init.
C3_SizesSumToCapacity ==
    pc = "ready" => SumSizes(FreeSet \cup LiveHeaders) = capacity

\* C4: the nodes reachable from head appear in strictly increasing address
\* order.
C4_AddressOrdered ==
    \A i \in 1 .. (Len(FreeNodes) - 1) : FreeNodes[i] < FreeNodes[i + 1]

\* C5: no two free-list nodes are address-adjacent.
C5_NoAdjacentFreeNodes ==
    \A x, y \in FreeSet : x + NodeSize(mem, x) # y

\* C6: for every live block, free-list node (the initial block included) or
\* allocated block, the size in its header equals the size in its footer at
\* header + size - footer_size.
C6_HeaderEqualsFooter ==
    pc = "ready" =>
        \A a \in FreeSet \cup LiveHeaders :
            /\ InHeap(FooterAddr(a, NodeSize(mem, a)))
            /\ mem[FooterAddr(a, NodeSize(mem, a))] = NodeSize(mem, a)

\* The call just made was alloc(layout) and it came back to its caller.
AllocReturned == calls' # calls /\ last'.op = "alloc" /\ pc' \in {"static", "ready"}

\* C7: whenever allocate returns the failure outcome, the allocator state
\* after the call (head and every word of every header and footer) is the
\* state before the call.
C7_FailureLeavesStateUnchanged ==
    [][(AllocReturned /\ last'.ret = null_mut)
         => /\ head' = head
            /\ mem' = mem
            /\ <<start_address', capacity', heap_type'>>
                 = <<start_address, capacity, heap_type>>]_vars

\* A request failed although the search walked a list that holds a node:
\* no node was large enough.
C7_Witness ==
    /\ pc = "ready"
    /\ last.op = "alloc"
    /\ last.ret = null_mut
    /\ TotalSize(last.size) < capacity
    /\ live # {}
    /\ IsSome(head)

\* A request of `size` bytes is small: its block is smaller than the heap.
Small(size) == TotalSize(size) < capacity

\* Some node of the free list can hold a block of `total` bytes.
Fits(total) == \E n \in FreeSet : NodeSize(mem, n) >= total

\* C8: for every state and every strategy, a request whose total block size
\* exceeds the capacity returns failure, and a following allocate of a small
\* size that fits in some free block still succeeds.
C8_OversizeFailsThenSmallSucceeds ==
    pc = "ready" =>
        \A big \in Layouts :
            TotalSize(big.size) > capacity =>
                LET r1 == alloc(Self, mem, big)
                IN  /\ r1.st = "ok"
                    /\ r1.ptr = null_mut
                    /\ \A small \in Layouts :
                         (Small(small.size) /\ Fits(TotalSize(small.size))) =>
                             LET r2 == alloc(r1.self, r1.m, small)
                             IN  r2.st = "ok" /\ r2.ptr # null_mut

\* C9: a request whose alignment is greater than ALIGN always returns
\* failure (null from the adapter) and leaves the allocator state unchanged.
C9_UnsupportedAlignFails ==
    [][(calls' # calls /\ last'.op = "alloc" /\ last'.align > ALIGN)
         => (last'.ret = null_mut /\ head' = head /\ mem' = mem)]_vars

AllocateCalled == calls' # calls /\ last'.op = "allocate"

\* C11: if computing the total block size (payload rounded up to ALIGN plus
\* the header and footer overhead) overflows the machine word, allocate
\* returns failure: it does not panic, and it does not go on with a
\* wrapped-around total size, so it hands out nothing and changes nothing.
C11_OverflowIsFailure ==
    [][(AllocateCalled /\ Overflows(last'.size))
         => /\ pc' = pc
            /\ last'.ret = null_mut
            /\ head' = head
            /\ mem' = mem]_vars

\* The free-list nodes of memory m, from head hd.
NodesOf(m, hd) ==
    LET w == Walk(m, hd, Fuel) IN {w[i] : i \in 1 .. Len(w)}

\* The call just made was dealloc(ptr).
DeallocCalled == calls' # calls /\ last'.op = "dealloc"

\* The block below the block at h and the block above it are both allocated.
BothNeighboursAllocated(h) ==
    /\ \E a \in LiveHeaders : a + NodeSize(mem, a) = h
    /\ h + NodeSize(mem, h) \in LiveHeaders

\* C12: deallocating a block whose lower and upper address neighbours are
\* both allocated adds exactly one free-list node, whose address and size
\* are that block's, and leaves the header size and the footer of every
\* block that stays allocated as they were.
C12_NoPrematureMerge ==
    [][(DeallocCalled /\ BothNeighboursAllocated(last'.ptr - SIZE_OF_NODE))
         => LET h == last'.ptr - SIZE_OF_NODE
            IN  /\ pc' = pc
                /\ h \notin FreeSet
                /\ NodesOf(mem', head') = FreeSet \cup {h}
                /\ NodeSize(mem', h) = NodeSize(mem, h)
                /\ \A a \in LiveHeaders \ {h} :
                     /\ NodeSize(mem', a) = NodeSize(mem, a)
                     /\ InHeap(FooterAddr(a, NodeSize(mem, a)))
                          => mem'[FooterAddr(a, NodeSize(mem, a))]
                               = mem[FooterAddr(a, NodeSize(mem, a))]]_vars

\* The free node n starts where the block at h ends: every block is at
\* least block_overhead long, so no block lies between two headers that are
\* less than twice the overhead apart.
EndsAtFreeNode(h, n) ==
    /\ n \in FreeSet
    /\ h < n
    /\ n < h + 2 * block_overhead

\* C13: deallocating a block whose end address equals the start of a free
\* block leaves one free node covering exactly both spans; so after
\* allocating three contiguous blocks A, B, C and deallocating B and then A,
\* the free list holds a single node for them, starting at A with size
\* size(A) + size(B), and C's header and footer are unchanged.
C13_ForwardCoalescing ==
    [][DeallocCalled
         => LET h == last'.ptr - SIZE_OF_NODE
            IN  \A n \in Words :
                  EndsAtFreeNode(h, n)
                    => LET end == n + NodeSize(mem, n)
                       IN  /\ pc' = pc
                           /\ n \notin NodesOf(mem', head')
                           /\ \E x \in NodesOf(mem', head') :
                                /\ x <= h
                                /\ x + NodeSize(mem', x) = end
                           /\ h = start_address
                                => /\ h \in NodesOf(mem', head')
                                   /\ NodeSize(mem', h) = end - h
                           /\ (end \in LiveHeaders /\ InHeap(FooterAddr(end, NodeSize(mem, end))))
                                => /\ NodeSize(mem', end) = NodeSize(mem, end)
                                   /\ mem'[FooterAddr(end, NodeSize(mem, end))]
                                        = mem[FooterAddr(end, NodeSize(mem, end))]]_vars

\* The size bytes from address a lie inside the heap region.
InsideRegion(a, size) ==
    /\ start_address <= a
    /\ a + size <= start_address + capacity

\* C14: in every reachable state every free-list node and every allocated
\* block lies entirely inside the heap region, start <= address and
\* address + size <= start + capacity, and every pointer returned by
\* allocate lies inside the region together with its requested payload
\* bytes.
C14_BlocksInsideRegion ==
    pc = "ready" =>
        /\ \A a \in FreeSet \cup LiveHeaders : InsideRegion(a, NodeSize(mem, a))
        /\ (last.op = "alloc" /\ last.ret # null_mut)
             => /\ InsideRegion(last.ret, last.size)
                /\ last.ret < start_address + capacity

\* Positions in the free list of the nodes that can hold `total` bytes.
FittingAt(total) ==
    {i \in 1 .. Len(FreeNodes) : NodeSize(mem, FreeNodes[i]) >= total}

\* The first node in list order that can hold `total` bytes.
FirstFitting(total) ==
    FreeNodes[CHOOSE i \in FittingAt(total) : \A j \in FittingAt(total) : i <= j]

\* The call just made asked allocate for a size whose total block size does
\* not overflow, and it came back to its caller.
AllocateReturned ==
    /\ calls' # calls
    /\ last'.op \in {"alloc", "allocate"}
    /\ ~Overflows(last'.size)
    /\ pc' \in {"static", "ready"}

\* C15: under FirstFit, for every free-list state and every request,
\* allocate succeeds if and only if some free node has size >= the total
\* block size, and the node chosen is the first such node in list order
\* from head.
C15_FirstFitChoosesFirst ==
    [][(AllocateReturned /\ heap_type = "FirstFit")
         => LET total == TotalSize(last'.size)
            IN  /\ last'.ret # null_mut <=> Fits(total)
                /\ last'.ret # null_mut
                     => last'.ret - SIZE_OF_NODE = FirstFitting(total)]_vars

\* The position of node h in the free list.
IndexOf(h) == CHOOSE i \in 1 .. Len(FreeNodes) : FreeNodes[i] = h

\* The node before position i of the free list, as an Option.
PredecessorAt(i) == IF i = 1 THEN None ELSE Some(FreeNodes[i - 1])

\* The call just made was an allocation under strategy ht that returned a
\* block.
Allocated(ht) ==
    /\ AllocateReturned
    /\ heap_type = ht
    /\ last'.ret # null_mut

\* C16: under BestFit, for every free-list state and every request, the
\* node chosen has the minimum size among all free nodes with size >= the
\* total block size, when several nodes share that minimum size the one
\* earliest in list order is chosen, and the predecessor returned by the
\* search is that node's list predecessor.
C16_BestFitChoosesSmallest ==
    [][Allocated("BestFit")
         => LET total == TotalSize(last'.size)
                h == last'.ret - SIZE_OF_NODE
                f == find_region_best_fit(Self, mem, total)
            IN  /\ h \in FreeSet
                /\ NodeSize(mem, h) >= total
                /\ \A i \in FittingAt(total) :
                     /\ NodeSize(mem, FreeNodes[i]) >= NodeSize(mem, h)
                     /\ NodeSize(mem, FreeNodes[i]) = NodeSize(mem, h)
                          => IndexOf(h) <= i
                /\ f.region = Some(h)
                /\ f.prev = PredecessorAt(IndexOf(h))]_vars

\* BestFit took the earlier of two free nodes of the same size: the block
\* it returned is larger than the request's total, so it was handed out
\* whole, and a free node above it has the same size.
C16_Witness ==
    /\ pc = "ready"
    /\ heap_type = "BestFit"
    /\ last.op = "alloc"
    /\ last.ret # null_mut
    /\ ~Cyclic
    /\ \E n \in FreeSet :
         /\ n > last.ret
         /\ NodeSize(mem, n) = NodeSize(mem, last.ret - SIZE_OF_NODE)
         /\ NodeSize(mem, n) > TotalSize(last.size)

\* C17: under WorstFit, for every free-list state and every request, the
\* node chosen has the maximum size among all free nodes with size >= the
\* total block size, when several nodes share that maximum size the one
\* earliest in list order is chosen, and the predecessor returned by the
\* search is that node's list predecessor.
C17_WorstFitChoosesLargest ==
    [][Allocated("WorstFit")
         => LET total == TotalSize(last'.size)
                h == last'.ret - SIZE_OF_NODE
                f == find_region_worst_fit(Self, mem, total)
            IN  /\ h \in FreeSet
                /\ NodeSize(mem, h) >= total
                /\ \A i \in FittingAt(total) :
                     /\ NodeSize(mem, FreeNodes[i]) <= NodeSize(mem, h)
                     /\ NodeSize(mem, FreeNodes[i]) = NodeSize(mem, h)
                          => IndexOf(h) <= i
                /\ f.region = Some(h)
                /\ f.prev = PredecessorAt(IndexOf(h))]_vars

\* WorstFit took the earlier of two free nodes of the same size: the block
\* it returned is larger than the request's total, so it was handed out
\* whole, and a free node above it has the same size.
C17_Witness ==
    /\ pc = "ready"
    /\ heap_type = "WorstFit"
    /\ last.op = "alloc"
    /\ last.ret # null_mut
    /\ ~Cyclic
    /\ \E n \in FreeSet :
         /\ n > last.ret
         /\ NodeSize(mem, n) = NodeSize(mem, last.ret - SIZE_OF_NODE)
         /\ NodeSize(mem, n) > TotalSize(last.size)

\* The Next-Fit cursor is known from the call made last: after init and
\* after a deallocation it is the head, and after an allocation that
\* returned a block it is the node following the consumed region, the
\* lowest free node above the block returned, or the head if there is none.
CursorKnown ==
    \/ last.op \in {"init", "dealloc"}
    \/ last.op \in {"alloc", "allocate"} /\ last.ret # null_mut

NodesAbove(p) == {i \in 1 .. Len(FreeNodes) : FreeNodes[i] > p}

\* Position of the cursor in the free list.
CursorAt ==
    IF last.op \in {"alloc", "allocate"} /\ NodesAbove(last.ret) # {}
    THEN CHOOSE i \in NodesAbove(last.ret) :
             \A j \in NodesAbove(last.ret) : FreeNodes[i] <= FreeNodes[j]
    ELSE 1

\* The first node that can hold `total` bytes in a search that starts at
\* the cursor and wraps once to the head when it reaches the tail.
FirstFittingFromCursor(total) ==
    LET after == {i \in FittingAt(total) : i >= CursorAt}
        cands == IF after # {} THEN after ELSE FittingAt(total)
    IN  FreeNodes[CHOOSE i \in cands : \A j \in cands : i <= j]

\* C18: under NextFit the search starts at the cursor (the node following
\* the most recently consumed region), takes the first node with size >=
\* the total block size, and wraps once to head if the tail is reached; so
\* on a list with a fitting free block placed earlier than the cursor,
\* NextFit chooses a different node than FirstFit would on the same list.
C18_NextFitStartsAtCursor ==
    [][(Allocated("NextFit") /\ CursorKnown /\ ~Cyclic)
         => LET total == TotalSize(last'.size)
                h == last'.ret - SIZE_OF_NODE
            IN  /\ h = FirstFittingFromCursor(total)
                /\ FirstFitting(total) # FirstFittingFromCursor(total)
                     => h # FirstFitting(total)]_vars

InitStarts == {HEAP_START + d : d \in 0 .. ALIGN}

InitCapacities == 0 .. HEAP_SIZE

\* The address is a multiple of the alignment of a FreeListNode.
OnGrid(a) == a % ALIGN = 0

\* node_ptr.write(node) through a pointer that is not aligned: the header
\* lands on the three words that start at node_ptr, kept under their own
\* addresses beside the words of the 8-byte grid.
WriteNodeOffGrid(m, p, size, next) ==
    [a \in DOMAIN m \cup {p, p + SIZE_OF_USIZE, p + 2 * SIZE_OF_USIZE} |->
        CASE a = p -> size
          [] a = p + SIZE_OF_USIZE -> next[1]
          [] a = p + 2 * SIZE_OF_USIZE -> next[2]
          [] OTHER -> m[a]]

\* *ALLOCATOR.lock() = FreeList::init(start, capacity, heap_type).  The
\* write through a misaligned node_ptr is undefined behaviour: it traps, or
\* it lands where it points.
FreeListInit ==
    /\ pc = "static"
    /\ \E start \in InitStarts, cap \in InitCapacities, ht \in HeapType,
          traps \in BOOLEAN :
         LET r == init(mem, start, cap, ht)
         IN  /\ last' = [op |-> "freelist_init", size |-> cap, align |-> 0,
                         ptr |-> start, ret |-> null_mut]
             /\ IF ~OnGrid(start) /\ traps
                THEN /\ pc' = "fault"
                     /\ UNCHANGED <<head, start_address, capacity, heap_type, mem>>
                ELSE /\ pc' = "ready"
                     /\ head' = r.self.head
                     /\ start_address' = r.self.start_address
                     /\ capacity' = r.self.capacity
                     /\ heap_type' = r.self.heap_type
                     /\ mem' = IF OnGrid(start) THEN r.m
                               ELSE WriteNodeOffGrid(mem, start, cap, None)
    /\ UNCHANGED <<live, granted, inflight, footers, calls, phase>>

NextInit == FreeListInit

SpecInit == Init /\ [][NextInit]_vars

\* a rounded up, and a rounded down, to a multiple of ALIGN
RoundUp(a) == ((a + ALIGN - 1) \div ALIGN) * ALIGN

RoundDown(a) == (a \div ALIGN) * ALIGN

\* The capacity left of `cap` bytes from `start` once start is rounded up
\* and the rest is rounded down.
UsableCapacity(start, cap) == RoundDown(cap - (RoundUp(start) - start))

\* C21: for every start address and capacity, init places the initial free
\* block at start rounded up to a multiple of ALIGN, reduces the capacity
\* by the rounding loss and rounds the resulting usable capacity down to a
\* multiple of ALIGN; the recorded start_address and capacity are these
\* adjusted values.
C21_InitRoundsToAlign ==
    (last.op = "freelist_init" /\ last.size >= ALIGN)
        => /\ pc = "ready"
           /\ start_address = RoundUp(last.ptr)
           /\ capacity = UsableCapacity(last.ptr, last.size)
           /\ head = Some(RoundUp(last.ptr))
           /\ mem[RoundUp(last.ptr)] = UsableCapacity(last.ptr, last.size)

\* C22: init with a usable capacity smaller than one block's header plus
\* footer overhead fails fatally (assertion) and never produces a FreeList
\* whose head node has a size smaller than the overhead.
C22_InitAssertsCapacity ==
    last.op = "freelist_init"
        => /\ UsableCapacity(last.ptr, last.size) < block_overhead
                => pc = "panic"
           /\ (pc = "ready" /\ IsSome(head))
                => mem[Unwrap(head)] >= block_overhead

\* ------------------------------------------------------------------------
\* Two callers inside GlobalAlloc::alloc at the same time
\* ------------------------------------------------------------------------
\* a lock that makes a caller wait while another caller holds the FreeList
lock_exclusive(holders, c) ==
    holders \ {c} = {}

\* Locked::lock: unsafe { &mut *self.inner.get() }, whoever else holds one
lock(holders, c) ==
    TRUE

\* The callers that hold the &mut FreeList of an allocate call in progress.
Holders == {c \in Callers : inflight[c].at = "searched"}

\* Caller c takes the lock and allocate runs up to the end of its search
\* (lines 420-431).
Search(c) ==
    /\ pc = "ready"
    /\ calls < MaxRaceCalls
    /\ inflight[c].at # "searched"
    /\ lock(Holders, c)
    /\ calls' = calls + 1
    /\ \E size \in ReqSizes :
         LET total_size == TotalSize(size)
             f == find_region(Self, mem, total_size)
         IN  /\ inflight' = [inflight EXCEPT ![c] =
                    [at |-> IF f.st = "ok" THEN "searched" ELSE "stuck",
                     size |-> size, total |-> total_size,
                     region |-> f.region, prev |-> f.prev, ret |-> null_mut]]
             /\ pc' = CASE f.st = "ok" -> pc
                        [] f.st = "hang" -> "hung"
                        [] f.st = "fault" -> "fault"
    /\ UNCHANGED <<head, start_address, capacity, heap_type, mem, live, granted,
                   footers, last, phase>>

\* Caller c goes on from its search to the end of allocate (lines 433-477)
\* over the list as it is by now, and alloc returns.
Finish(c) ==
    /\ pc = "ready"
    /\ inflight[c].at = "searched"
    /\ LET call == inflight[c]
           r == allocate_from(Self, mem, call.region, call.prev, call.total)
           ret == IF IsSome(r.ret) THEN Unwrap(r.ret) ELSE null_mut
       IN  /\ head' = r.self.head
           /\ mem' = r.m
           /\ live' = IF r.st = "ok" /\ ret # null_mut
                      THEN live \cup {ret} ELSE live
           /\ granted' = IF r.st = "ok" /\ ret # null_mut
                         THEN Grant(granted, ret, r.m) ELSE granted
           /\ inflight' = [inflight EXCEPT ![c] =
                  [call EXCEPT !.at = "done", !.ret = ret]]
           /\ footers' = footers \cup allocate_from_footers(mem, call.region,
                                                            call.prev, call.total)
           /\ last' = [op |-> "alloc", size |-> call.size, align |-> ALIGN,
                       ptr |-> null_mut, ret |-> ret]
           /\ pc' = CASE r.st = "ok" -> pc
                      [] r.st = "hang" -> "hung"
                      [] r.st = "fault" -> "fault"
    /\ UNCHANGED <<start_address, capacity, heap_type, calls, phase>>

NextConcurrent ==
    \/ MemoryInit
    \/ \E c \in Callers : Search(c)
    \/ \E c \in Callers : Finish(c)

SpecConcurrent == Init /\ [][NextConcurrent]_vars

\* C23: Locked::lock never blocks and provides no mutual exclusion: a
\* caller gets access to the FreeList whatever the other caller holds, so
\* two callers can be inside allocate at the same time and the steps of
\* their calls (search, then unlink or split) interleave.
C23_LockNeverBlocks ==
    (pc = "ready" /\ calls < MaxRaceCalls)
        => \A c \in Callers :
             inflight[c].at # "searched" => ENABLED Search(c)

\* Two interleaved calls have both returned the same block.
C23_Witness ==
    /\ pc = "ready"
    /\ inflight[1].at = "done"
    /\ inflight[2].at = "done"
    /\ inflight[1].ret # null_mut
    /\ inflight[1].ret = inflight[2].ret
    /\ live = {inflight[1].ret}

\* ---------------------------------------------------------------------
\* Termination of the list traversals

\* C24: after init and any sequence of valid allocate and deallocate
\* calls the free list is finite and acyclic, and no call runs forever:
\* the list from head ends at None before a node is met twice, and no
\* traversal (first_fit_loop, best_fit_loop, worst_fit_loop, insert_loop)
\* has been left without a result.
C24_ListAcyclicCallsTerminate ==
    pc # "static" => ~Cyclic /\ pc # "hung"

\* ---------------------------------------------------------------------
\* head and the free memory

\* Bytes of the blocks handed out and not yet given back, each with the
\* block size it had when allocate returned it.
RECURSIVE GrantedBytes(_)
GrantedBytes(S) ==
    IF S = {} THEN 0
    ELSE LET p == CHOOSE x \in S : TRUE
         IN  granted[p] + GrantedBytes(S \ {p})

\* No free memory remains: the live blocks account for every byte of the
\* region.
NoFreeMemory == GrantedBytes(live) = capacity

\* C25: in every state after init, head is None if and only if no free
\* memory remains, that is every byte of the region belongs to a live
\* allocated block.
C25_HeadNoneIffNoFreeMemory ==
    pc = "ready" => (IsNone(head) <=> NoFreeMemory)

\* ---------------------------------------------------------------------
\* The first allocation on a fresh heap

\* The heap is as init left it: one node at the start covering the region.
FreshHeap ==
    /\ pc = "ready"
    /\ last.op = "init"
    /\ head = Some(start_address)
    /\ NodeSize(mem, start_address) = capacity
    /\ IsNone(NodeNext(mem, start_address))

\* C26: on a freshly initialised heap of capacity C, a successful allocate
\* whose total block size T satisfies C >= T + overhead returns
\* start + header size and leaves a free list of exactly one node, at
\* start + T, with size C - T and no successor.
C26_FirstAllocationSplitsFreshHeap ==
    [][(/\ FreshHeap
        /\ AllocateReturned
        /\ last'.ret # null_mut
        /\ capacity >= TotalSize(last'.size) + block_overhead)
        => LET T == TotalSize(last'.size)
           IN  /\ last'.ret = start_address + SIZE_OF_NODE
               /\ Walk(mem', head', Fuel) = <<start_address + T>>
               /\ NodeSize(mem', start_address + T) = capacity - T
               /\ IsNone(NodeNext(mem', start_address + T))]_vars

\* allocate(9), a block of 48 bytes, was the first call on the fresh heap
\* and left the one node of capacity - 48 bytes at start + 48.
C26_Witness ==
    /\ pc = "ready"
    /\ last.op = "alloc" /\ last.size = 9
    /\ calls = 1
    /\ last.ret = start_address + SIZE_OF_NODE
    /\ live = {last.ret}
    /\ FreeNodes = <<start_address + 48>>
    /\ NodeSize(mem, start_address + 48) = capacity - 48
    /\ capacity >= 48 + block_overhead

\* ---------------------------------------------------------------------
\* The kernel's start-up sequence, _main

\* Control reaches the allocation sites of _main in any order with line 44:
\* what the straight-line code of _main rules out.
main_any_order(p) ==
    p \in {"static", "ready"}

\* Control of _main is past `memory::init()` (line 44) when it reaches
\* Box::new (line 65) and the Vec pushes (lines 74-77).
main_heap_ready(p) ==
    p = "ready"

\* Box::new, Vec::push: the allocation requests of _main
KernelAlloc == main_heap_ready(pc) /\ Alloc

\* _main: memory::init() once, then the requests of Box and Vec (a Vec
\* that grows allocates the new buffer and gives the old one back); a
\* request that fails ends in the alloc_error_handler.
NextKernel == MemoryInit \/ KernelAlloc \/ Dealloc \/ AllocError

SpecKernel == Init /\ [][NextKernel]_vars

\* C27: in the kernel's start-up sequence memory::init is invoked exactly
\* once and strictly before the first allocation request reaches the
\* allocator: init runs only on the allocator as the static initialiser
\* left it, the allocator never returns to that state, and every request
\* finds the allocator initialised.
C27_InitOnceBeforeFirstAllocation ==
    /\ [][last'.op = "init" => pc = "static" /\ calls = 0]_vars
    /\ [][pc # "static" => pc' # "static"]_vars
    /\ [][calls' # calls => pc # "static" /\ start_address = HEAP_START]_vars

\* The first request came after init and was served from the heap.
C27_Witness ==
    /\ pc = "ready"
    /\ calls = 1
    /\ last.op = "alloc" /\ last.size = 1
    /\ last.ret = HEAP_START + SIZE_OF_NODE
    /\ start_address = HEAP_START /\ capacity = HEAP_SIZE

\* ---------------------------------------------------------------------
\* Backward coalescing

\* The allocated blocks that end where the block at h begins: live blocks
\* whose extent, as allocate handed it out, reaches exactly to h.
AllocatedBelow(h) ==
    {a \in LiveHeaders \ {h} : a + granted[a + SIZE_OF_NODE] = h}

\* C28: backward coalescing merges the freed block into the block that
\* precedes it in memory only when that block is free; when the preceding
\* block is allocated, deallocate leaves that block's header size and its
\* next field as they were.
C28_BackwardMergeOnlyIntoFreeBlock ==
    [][DeallocCalled
         => \A a \in AllocatedBelow(last'.ptr - SIZE_OF_NODE) :
              /\ NodeSize(mem', a) = NodeSize(mem, a)
              /\ NodeNext(mem', a) = NodeNext(mem, a)]_vars

\* ---------------------------------------------------------------------
\* Requests one word wider than ReqSizes

WideSizes == {ALIGN * (MaxReqWords + 1) + 1}

WideLayouts == {[size |-> s, align |-> ALIGN] : s \in WideSizes}

\* GlobalAlloc::alloc with a wide request
AllocWide ==
    /\ pc \in {"static", "ready"}
    /\ calls < MaxCalls
    /\ calls' = calls + 1
    /\ \E layout \in WideLayouts :
         LET r == alloc(Self, mem, layout)
         IN  /\ head' = r.self.head
             /\ mem' = r.m
             /\ live' = IF r.st = "ok" /\ r.ptr # null_mut
                        THEN live \cup {r.ptr} ELSE live
             /\ granted' = IF r.st = "ok" /\ r.ptr # null_mut
                           THEN Grant(granted, r.ptr, r.m) ELSE granted
             /\ footers' = footers \cup allocate_footers(Self, mem, layout.size)
             /\ last' = [op |-> "alloc", size |-> layout.size,
                         align |-> layout.align, ptr |-> null_mut,
                         ret |-> r.ptr]
             /\ phase' = IF phase = "allocs" /\ (r.ptr # null_mut \/ pc = "static")
                         THEN "allocs" ELSE "mixed"
             /\ pc' = CASE r.st = "ok" -> pc
                        [] r.st = "hang" -> "hung"
                        [] r.st = "fault" -> "fault"
    /\ UNCHANGED <<start_address, capacity, heap_type, inflight>>

NextWide == Next \/ AllocWide

SpecWide == Init /\ [][NextWide]_vars

\* ---------------------------------------------------------------------
\* The split rule

\* The first position of node h in the free list.
PositionOf(h) ==
    CHOOSE i \in 1 .. Len(FreeNodes) :
        /\ FreeNodes[i] = h
        /\ \A j \in 1 .. (i - 1) : FreeNodes[j] # h

\* After the call, the list position of the candidate before the call (the
\* head, or its predecessor's next field) holds `link`.
TakesPlaceOf(candidate, link) ==
    IF PositionOf(candidate) = 1
    THEN head' = link
    ELSE /\ head' = head
         /\ NodeNext(mem', FreeNodes[PositionOf(candidate) - 1]) = link

\* C29: allocate splits the candidate exactly when candidate.size >=
\* total + overhead. On a split the allocated block has size exactly total,
\* and the remainder, of size candidate.size - total at candidate + total,
\* takes the candidate's place in the list: its next is the candidate's
\* former successor and the candidate's former predecessor (or head) points
\* to it. Otherwise the candidate is unlinked whole: it keeps its size and
\* the predecessor (or head) points to the candidate's successor.
C29_SplitRule ==
    [][(AllocateReturned /\ pc = "ready" /\ last'.ret # null_mut)
         => LET total == TotalSize(last'.size)
                candidate == last'.ret - SIZE_OF_NODE
                size == NodeSize(mem, candidate)
                next == NodeNext(mem, candidate)
                remainder == candidate + total
            IN  /\ candidate \in FreeSet
                /\ IF size >= total + block_overhead
                   THEN /\ NodeSize(mem', candidate) = total
                        /\ NodeSize(mem', remainder) = size - total
                        /\ NodeNext(mem', remainder) = next
                        /\ TakesPlaceOf(candidate, Some(remainder))
                   ELSE /\ NodeSize(mem', candidate) = size
                        /\ TakesPlaceOf(candidate, next)]_vars

\* ---------------------------------------------------------------------
\* The capacity check

\* C30: a request is rejected by the capacity check only when its total
\* block size is strictly greater than the capacity: on a freshly
\* initialised heap a request whose total block size equals the capacity
\* succeeds, consumes the whole region and leaves head None.
C30_TotalEqualCapacitySucceeds ==
    [][(/\ FreshHeap
        /\ AllocateReturned
        /\ TotalSize(last'.size) = capacity)
        => /\ last'.ret = start_address + SIZE_OF_NODE
           /\ IsNone(head')
           /\ NodeSize(mem', start_address) = capacity]_vars

\* ---------------------------------------------------------------------
\* Internal fragmentation

\* C31: for every successful allocate, the size S recorded in the returned
\* block's header and footer satisfies total <= S < total + overhead,
\* where total is the total block size of the request.
C31_FragmentationBounded ==
    [][(AllocateReturned /\ pc = "ready" /\ last'.ret # null_mut)
         => LET total == TotalSize(last'.size)
                h == last'.ret - SIZE_OF_NODE
                S == NodeSize(mem', h)
            IN  /\ total <= S
                /\ S < total + block_overhead
                /\ InHeap(FooterAddr(h, S))
                /\ mem'[FooterAddr(h, S)] = S]_vars

\* The fourth allocate(0) took the last free node, 40 bytes for a total of
\* 32, whole: the returned block records 40 in header and footer and the
\* list is empty.
C31_Witness ==
    /\ pc = "ready"
    /\ last.op = "alloc" /\ last.size = 0
    /\ last.ret = start_address + 96 + SIZE_OF_NODE
    /\ last.ret \in live
    /\ NodeSize(mem, start_address + 96) = 40
    /\ mem[FooterAddr(start_address + 96, 40)] = 40
    /\ IsNone(head)

\* ---------------------------------------------------------------------
\* Longer runs of the smallest request

SmallLayouts == {[size |-> 0, align |-> ALIGN]}

\* GlobalAlloc::alloc with the smallest request
AllocSmall ==
    /\ pc \in {"static", "ready"}
    /\ calls < MaxSmallCalls
    /\ calls' = calls + 1
    /\ \E layout \in SmallLayouts :
         LET r == alloc(Self, mem, layout)
         IN  /\ head' = r.self.head
             /\ mem' = r.m
             /\ live' = IF r.st = "ok" /\ r.ptr # null_mut
                        THEN live \cup {r.ptr} ELSE live
             /\ granted' = IF r.st = "ok" /\ r.ptr # null_mut
                           THEN Grant(granted, r.ptr, r.m) ELSE granted
             /\ footers' = footers \cup allocate_footers(Self, mem, layout.size)
             /\ last' = [op |-> "alloc", size |-> layout.size,
                         align |-> layout.align, ptr |-> null_mut,
                         ret |-> r.ptr]
             /\ phase' = IF phase = "allocs" /\ (r.ptr # null_mut \/ pc = "static")
                         THEN "allocs" ELSE "mixed"
             /\ pc' = CASE r.st = "ok" -> pc
                        [] r.st = "hang" -> "hung"
                        [] r.st = "fault" -> "fault"
    /\ UNCHANGED <<start_address, capacity, heap_type, inflight>>

\* GlobalAlloc::dealloc in the longer runs
DeallocSmall ==
    /\ pc = "ready"
    /\ calls < MaxSmallCalls
    /\ calls' = calls + 1
    /\ \E ptr \in live :
         LET r == dealloc(Self, mem, ptr)
         IN  /\ head' = r.self.head
             /\ mem' = r.m
             /\ live' = live \ {ptr}
             /\ granted' = [p \in live \ {ptr} |-> granted[p]]
             /\ footers' = footers \cup deallocate_footers(Self, mem, ptr)
             /\ last' = [op |-> "dealloc", size |-> 0, align |-> 0,
                         ptr |-> ptr, ret |-> null_mut]
             /\ phase' = IF phase = "mixed" THEN "mixed" ELSE "frees"
             /\ pc' = CASE r.st = "ok" -> pc
                        [] r.st = "hang" -> "hung"
                        [] r.st = "fault" -> "fault"
    /\ UNCHANGED <<start_address, capacity, heap_type, inflight>>

NextSmall == MemoryInit \/ AllocSmall \/ DeallocSmall \/ AllocError

SpecSmall == Init /\ [][NextSmall]_vars

\* ---------------------------------------------------------------------
\* The insertion point of deallocate

\* The free list as deallocate leaves it after linking the block at h
\* (lines 506-525), before any coalescing.
ListAfterLink(h) ==
    LET w == insert_loop(mem, head, None, h, Fuel)
        i == dealloc_insert(Self, mem, h, w.region, w.prev)
    IN  Walk(i.m, i.self.head, Fuel)

\* The free list with h put immediately before its first node whose
\* address is greater than h, or at the tail if there is none (as far as
\* Walk follows a list).
InsertedInOrder(h) ==
    LET above == {k \in 1 .. Len(FreeNodes) : FreeNodes[k] > h}
        at == IF above = {} THEN Len(FreeNodes) + 1
              ELSE CHOOSE k \in above : \A j \in above : k <= j
        all == SubSeq(FreeNodes, 1, at - 1) \o <<h>>
                   \o SubSeq(FreeNodes, at, Len(FreeNodes))
    IN  IF Len(all) > Fuel THEN SubSeq(all, 1, Fuel) ELSE all

\* C32: deallocate links the freed block into the free list immediately
\* before the first node (scanning from head) whose address is greater
\* than the freed block's address, or at the tail if there is none; the
\* relative order of all other nodes is unchanged.
C32_LinkedBeforeFirstGreater ==
    [][(DeallocCalled /\ pc' = "ready")
         => ListAfterLink(last'.ptr - SIZE_OF_NODE)
              = InsertedInOrder(last'.ptr - SIZE_OF_NODE)]_vars

\* ---------------------------------------------------------------------
\* NextFit and FirstFit side by side

\* The allocator of this state, configured with FirstFit.
SelfFirstFit == [Self EXCEPT !.heap_type = "FirstFit"]

\* The state of an adapter call that ended with st, made in state p.
PcAfter(st, p) ==
    CASE st = "ok" -> p
      [] st = "hang" -> "hung"
      [] st = "fault" -> "fault"

NextFitStart == find_region_next_fit(Self, mem, 0)

NodeMeetsBlock(n, p) ==
    /\ n < (p - SIZE_OF_NODE) + granted[p]
    /\ p - SIZE_OF_NODE < n + NodeSize(mem, n)

\* C35: in every reachable state no block is both allocated and free: no
\* node reachable from head has an address range that intersects the range
\* of a block that was returned by allocate and not yet deallocated.
C35_NoBlockAllocatedAndFree ==
    pc = "ready" => \A n \in FreeSet, p \in live : ~NodeMeetsBlock(n, p)

\* ---------------------------------------------------------------------
\* allocate, then deallocate of the pointer it returned

\* The nodes from hd over memory m, each with its size.
NodeList(m, hd) ==
    LET w == Walk(m, hd, Fuel)
    IN  [i \in 1 .. Len(w) |-> <<w[i], NodeSize(m, w[i])>>]

\* alloc(layout) returns a block in this state, and dealloc of the returned
\* pointer, called next, returns with the free list as it was before.
RoundTripRestores(layout) ==
    LET r == alloc(Self, mem, layout)
        d == dealloc(r.self, r.m, r.ptr)
    IN  (r.st = "ok" /\ r.ptr # null_mut)
            => /\ d.st = "ok"
               /\ NodeList(d.m, d.self.head) = NodeList(mem, head)

\* C36: in any reachable state, a successful allocate followed immediately
\* by deallocate of the returned pointer restores the free list exactly:
\* the same sequence of (address, size) nodes from head as before the
\* allocate.
C36_AllocateDeallocateRestores ==
    pc = "ready" => \A layout \in Layouts : RoundTripRestores(layout)

\* ---------------------------------------------------------------------
\* Requests before init

\* C37: before init has run (the static allocator with head None,
\* start_address 0, capacity 0), every allocation request returns null
\* through the adapter and performs no write to memory and no change to the
\* allocator fields.
C37_BeforeInitNullAndNoEffect ==
    /\ [](pc = "static"
            => /\ IsNone(head)
               /\ start_address = 0
               /\ capacity = 0)
    /\ [][(pc = "static" /\ calls' # calls /\ last'.op = "alloc")
            => /\ last'.ret = null_mut
               /\ mem' = mem
               /\ head' = head
               /\ start_address' = start_address
               /\ capacity' = capacity
               /\ heap_type' = heap_type
               /\ pc' = "static"]_vars

\* A request of 9 bytes reached the static allocator and got null.
C37_Witness ==
    /\ pc = "static"
    /\ calls = 1
    /\ last.op = "alloc" /\ last.size = 9
    /\ last.ret = null_mut
    /\ IsNone(head) /\ capacity = 0

\* ---------------------------------------------------------------------
\* The footer deallocate reads

\* deallocate of the block at node_ptr gets as far as line 546 and reads
\* the word below node_ptr: the walk and the forward step came back and
\* the block does not begin at the heap start.
ReadsFooterBelow(node_ptr) ==
    LET w == insert_loop(mem, head, None, node_ptr, Fuel)
        i == dealloc_insert(Self, mem, node_ptr, w.region, w.prev)
    IN  /\ NodeInHeap(node_ptr)
        /\ w.st = "ok"
        /\ coalesce_forward(i.self, i.m, node_ptr).st = "ok"
        /\ node_ptr > start_address

\* C38: whenever deallocate reads the footer word immediately below the
\* freed block's header (freed block not at the heap start), that word was
\* written as a footer by an earlier allocate or deallocate; it is never
\* memory left unwritten by init.
C38_FooterReadWasWritten ==
    [][(DeallocCalled /\ ReadsFooterBelow(last'.ptr - SIZE_OF_NODE))
         => (last'.ptr - SIZE_OF_NODE - SIZE_OF_USIZE) \in footers]_vars

\* The second block was given back on a heap whose initial block got no
\* footer from init: the word read below it is the footer the first
\* allocate wrote.
C38_Witness ==
    /\ pc = "ready"
    /\ calls = 3
    /\ last.op = "dealloc"
    /\ last.ptr = start_address + 32 + SIZE_OF_NODE
    /\ (start_address + 32 - SIZE_OF_USIZE) \in footers
    /\ live = {start_address + SIZE_OF_NODE}

\* ---------------------------------------------------------------------
\* Everything on the ALIGN grid

\* C39: when the heap start and capacity passed to init are multiples of
\* ALIGN, every block address, every block size and every pointer returned
\* by allocate is a multiple of ALIGN in every reachable state.
C39_EverythingAligned ==
    (pc = "ready" /\ OnGrid(start_address) /\ OnGrid(capacity))
        => /\ \A n \in FreeSet : OnGrid(n) /\ OnGrid(NodeSize(mem, n))
           /\ \A p \in live :
                /\ OnGrid(p)
                /\ OnGrid(p - SIZE_OF_NODE)
                /\ OnGrid(NodeSize(mem, p - SIZE_OF_NODE))

====
